---------------------------- MODULE Spec2Model ----------------------------
(***************************************************************************)
(* A model of package toolkit (src/tool.go): RandomString and the mutex    *)
(* around the shared generator, the multipart upload pipeline, ReadJSON,   *)
(* WriteJSON / ErrorJSON and PushJSONToRemote.                             *)
(*                                                                         *)
(* The helpers are independent of one another, so every component has a    *)
(* specification of its own over the same variables:                       *)
(*   SpecRandom  concurrent callers of RandomString and UploadFiles        *)
(*   SpecUpload  one UploadFiles / UploadFile call, part by part           *)
(*   SpecJSON    ReadJSON over a request body                              *)
(*   SpecWrite   WriteJSON / ErrorJSON on a response writer                *)
(*   SpecPush    PushJSONToRemote and the caller reading the response      *)
(***************************************************************************)
EXTENDS Integers, Sequences, FiniteSets, TLC

(***************************************************************************)
(* Bounds of the model.                                                    *)
(***************************************************************************)
NumCallers == 2
MaxN == 2
MaxDraws == 3

VARIABLES
    t,          \* the Tools value: MaxFileSize, AllowedFileTypes, MaxJSONSize, JSONAllowUnknownFields
    mu,         \* package mutex: 0 when free, else the caller holding it
    rng,        \* package generator: the number of words drawn from it so far
    pc,         \* each caller's position
    op,         \* each caller's outermost call
    n,          \* RandomString's argument, per caller
    st,         \* RandomString's locals, per caller: i, bits, val, b
    res,        \* RandomString's last result, per caller
    locked,     \* whether the caller's current RandomString call took the mutex
    drew,       \* whether the caller's current RandomString call drew a word
    rejected,   \* whether the caller's current RandomString call rejected an index
    req,        \* the multipart request of the upload call and the call's arguments
    upc,        \* the upload call's position
    uploadedFiles, \* UploadFiles' local slice of records
    partIdx,    \* the file part the range loop is at
    opened,     \* the parts hdr.Open() was called on
    verdicts,   \* per part that reached line 145: the closure's local allowed
    disk,       \* the files under uploadDir: name -> bytes
    upRet,      \* what UploadFiles returned
    ufRet,      \* what UploadFile returned
    created,    \* the parts os.Create made a file for
    jreq,       \* ReadJSON's request body and target
    jret,       \* what ReadJSON returned, with the two Decode results behind it
    wcall,      \* the call made on the response writer, with its arguments
    rw,         \* the http.ResponseWriter: header, status, body, order of calls
    wret,       \* what WriteJSON or ErrorJSON returned
    ppc,        \* PushJSONToRemote's caller: idle, returned, reading
    presp,      \* what PushJSONToRemote returned
    pbody,      \* the response's Body
    pread       \* what the caller has read of the Body

randVars == <<mu, rng, pc, op, n, st, res, locked, drew, rejected>>
upVars == <<req, upc, uploadedFiles, partIdx, opened, verdicts, created, disk, upRet, ufRet>>
jsonVars == <<jreq, jret>>
writeVars == <<wcall, rw, wret>>
pushVars == <<ppc, presp, pbody, pread>>
notRand == <<upVars, jsonVars, writeVars, pushVars>>
notUp == <<mu, pc, op, n, st, res, locked, drew, rejected, jsonVars, writeVars, pushVars>>
notJSON == <<randVars, upVars, writeVars, pushVars>>
notWrite == <<randVars, upVars, jsonVars, pushVars>>
notPush == <<randVars, upVars, jsonVars, writeVars>>
vars == <<t, randVars, upVars, jsonVars, writeVars, pushVars>>

(***************************************************************************)
(* Strings are sequences of one-character strings.                         *)
(***************************************************************************)
LowerCase == <<"a","b","c","d","e","f","g","h","i","j","k","l","m",
               "n","o","p","q","r","s","t","u","v","w","x","y","z">>
UpperCase == <<"A","B","C","D","E","F","G","H","I","J","K","L","M",
               "N","O","P","Q","R","S","T","U","V","W","X","Y","Z">>
Digits == <<"0","1","2","3","4","5","6","7","8","9">>

Range(s) == { s[k] : k \in DOMAIN s }

\* The element of a one-element set.  Only({F(x) : x \in {e}}) is F(e) with
\* e worked out once, however often F uses it.
Only(S) == CHOOSE x \in S : TRUE

--------------------------------------------------------------------------
(***************************************************************************)
(* RandomString (src/tool.go:20-71).                                       *)
(***************************************************************************)
randStrBytes == LowerCase \o UpperCase \o Digits \o <<"_">>
randStrLen == Len(randStrBytes)
defaultMaxFileSize == 1024 * 1024 * 1024

Callers == 1..NumCallers

\* A 64-bit word, least significant 6-bit digit first: ten full digits and
\* the four bits left over.  val & 0x3F is the head, val >>= 6 drops it.
WordZero == <<0, 0, 0, 0, 0, 0, 0, 0, 0, 0, 0>>
WordMix  == <<62, 63, 0, 26, 63, 52, 61, 63, 1, 25, 9>>
Words == {WordZero, WordMix}

Low6(val) == val[1]
Shr6(val) == Tail(val) \o <<0>>

NUL == "NUL"
MakeBytes(len) == [k \in 1..len |-> NUL]

\* var val uint64; var bits uint = 0; i := 0
LoopInit(len) == [i |-> 0, bits |-> 0, val |-> WordZero, b |-> MakeBytes(len)]

NeedsWord(s) == s.bits < 6

\* One iteration of the for loop with the index rejected instead of mapped
\* counted as a character written.
LoopBodyCountsRejected(s, w) ==
    LET r   == IF NeedsWord(s) THEN [s EXCEPT !.val = w, !.bits = 64] ELSE s
        idx == Low6(r.val)
        x   == [r EXCEPT !.val = Shr6(r.val), !.bits = r.bits - 6]
    IN  IF idx = 63
        THEN [x EXCEPT !.i = x.i + 1]
        ELSE [x EXCEPT !.b[x.i + 1] = randStrBytes[idx + 1], !.i = x.i + 1]

\* One iteration of the for loop (lines 53-67); w is the word rng.Uint64()
\* returns if the iteration draws one.
LoopBody(s, w) ==
    LET r   == IF NeedsWord(s) THEN [s EXCEPT !.val = w, !.bits = 64] ELSE s
        idx == Low6(r.val)
        x   == [r EXCEPT !.val = Shr6(r.val), !.bits = r.bits - 6]
    IN  IF idx = 63
        THEN x
        ELSE [x EXCEPT !.b[x.i + 1] = randStrBytes[idx + 1], !.i = x.i + 1]

Rejects(s, w) ==
    Low6(IF NeedsWord(s) THEN w ELSE s.val) = 63

\* A caller starts RandomString(k).
CallRandomString(p) ==
    /\ pc[p] = "idle"
    /\ \E k \in -1..MaxN :
        /\ n' = [n EXCEPT ![p] = k]
        /\ op' = [op EXCEPT ![p] = "RandomString"]
    /\ pc' = [pc EXCEPT ![p] = "rs_entry"]
    /\ locked' = [locked EXCEPT ![p] = FALSE]
    /\ drew' = [drew EXCEPT ![p] = FALSE]
    /\ rejected' = [rejected EXCEPT ![p] = FALSE]
    /\ UNCHANGED <<notRand, t, mu, rng, st, res>>

\* Lines 40-44: n <= 0 returns ""; otherwise b := make([]byte, n).
RandomStringEntry(p) ==
    /\ pc[p] = "rs_entry"
    /\ IF n[p] <= 0
       THEN /\ res' = [res EXCEPT ![p] = <<>>]
            /\ pc' = [pc EXCEPT ![p] = "done"]
            /\ UNCHANGED st
       ELSE /\ st' = [st EXCEPT ![p] = LoopInit(n[p])]
            /\ pc' = [pc EXCEPT ![p] = "rs_lock"]
            /\ UNCHANGED res
    /\ UNCHANGED <<notRand, t, mu, rng, op, n, locked, drew, rejected>>

\* Line 46: mu.Lock() blocks until the mutex is free.
RandomStringLock(p) ==
    /\ pc[p] = "rs_lock"
    /\ mu = 0
    /\ mu' = p
    /\ locked' = [locked EXCEPT ![p] = TRUE]
    /\ pc' = [pc EXCEPT ![p] = "rs_loop"]
    /\ UNCHANGED <<notRand, t, rng, op, n, st, res, drew, rejected>>

\* Lines 52-68: one iteration of the loop.
RandomStringLoop(p) ==
    /\ pc[p] = "rs_loop"
    /\ st[p].i < n[p]
    /\ IF NeedsWord(st[p])
       THEN /\ rng < MaxDraws
            /\ \E w \in Words :
                /\ st' = [st EXCEPT ![p] = LoopBody(st[p], w)]
                /\ rejected' = [rejected EXCEPT ![p] = @ \/ Rejects(st[p], w)]
            /\ rng' = rng + 1
            /\ drew' = [drew EXCEPT ![p] = TRUE]
       ELSE /\ st' = [st EXCEPT ![p] = LoopBody(st[p], st[p].val)]
            /\ rejected' = [rejected EXCEPT ![p] = @ \/ Rejects(st[p], st[p].val)]
            /\ UNCHANGED <<rng, drew>>
    /\ UNCHANGED <<notRand, t, mu, pc, op, n, res, locked>>

\* Lines 70 and 47: return string(b), then the deferred mu.Unlock().
RandomStringUnlock(p) ==
    /\ pc[p] = "rs_loop"
    /\ st[p].i >= n[p]
    /\ res' = [res EXCEPT ![p] = st[p].b]
    /\ mu' = 0
    /\ pc' = [pc EXCEPT ![p] = "done"]
    /\ UNCHANGED <<notRand, t, rng, op, n, st, locked, drew, rejected>>

\* A caller starts UploadFiles on the shared Tools value.
CallUploadFiles(p) ==
    /\ pc[p] = "idle"
    /\ op' = [op EXCEPT ![p] = "UploadFiles"]
    /\ pc' = [pc EXCEPT ![p] = "uf_check"]
    /\ UNCHANGED <<notRand, t, mu, rng, n, st, res, locked, drew, rejected>>

\* Line 101: if t.MaxFileSize == 0.
UploadFilesCheck(p) ==
    /\ pc[p] = "uf_check"
    /\ pc' = [pc EXCEPT ![p] = IF t.MaxFileSize = 0 THEN "uf_default" ELSE "uf_parts"]
    /\ UNCHANGED <<notRand, t, mu, rng, op, n, st, res, locked, drew, rejected>>

\* Line 102: t.MaxFileSize = defaultMaxFileSize, a write to the shared Tools
\* value made without any lock.
UploadFilesDefault(p) ==
    /\ pc[p] = "uf_default"
    /\ t' = [t EXCEPT !.MaxFileSize = defaultMaxFileSize]
    /\ pc' = [pc EXCEPT ![p] = "uf_parts"]
    /\ UNCHANGED <<notRand, mu, rng, op, n, st, res, locked, drew, rejected>>

\* Lines 105-188 as far as they touch shared state: with renaming a part
\* calls t.RandomString(25) (line 157); everything else is local to the call
\* or on the filesystem.
UploadFilesParts(p) ==
    /\ pc[p] = "uf_parts"
    /\ \E renameFile \in BOOLEAN :
        IF renameFile
        THEN /\ n' = [n EXCEPT ![p] = 25]
             /\ pc' = [pc EXCEPT ![p] = "rs_entry"]
             /\ locked' = [locked EXCEPT ![p] = FALSE]
             /\ drew' = [drew EXCEPT ![p] = FALSE]
             /\ rejected' = [rejected EXCEPT ![p] = FALSE]
        ELSE /\ pc' = [pc EXCEPT ![p] = "done"]
             /\ UNCHANGED <<n, locked, drew, rejected>>
    /\ UNCHANGED <<notRand, t, mu, rng, op, st, res>>

\* The call is over and its locals are gone; the caller may make another.
CallerDone(p) ==
    /\ pc[p] = "done"
    /\ pc' = [pc EXCEPT ![p] = "idle"]
    /\ op' = [op EXCEPT ![p] = "none"]
    /\ n' = [n EXCEPT ![p] = 0]
    /\ st' = [st EXCEPT ![p] = LoopInit(0)]
    /\ res' = [res EXCEPT ![p] = <<>>]
    /\ locked' = [locked EXCEPT ![p] = FALSE]
    /\ drew' = [drew EXCEPT ![p] = FALSE]
    /\ rejected' = [rejected EXCEPT ![p] = FALSE]
    /\ UNCHANGED <<notRand, t, mu, rng>>

--------------------------------------------------------------------------
(***************************************************************************)
(* The upload pipeline (src/tool.go:73-201).                               *)
(***************************************************************************)
Min(a, b) == IF a < b THEN a ELSE b

\* strings.EqualFold on ASCII text: equal after folding the letters' case.
FoldChar(c) ==
    IF \E k \in DOMAIN UpperCase : UpperCase[k] = c
    THEN LowerCase[CHOOSE k \in DOMAIN UpperCase : UpperCase[k] = c]
    ELSE c

EqualFold(a, b) ==
    /\ Len(a) = Len(b)
    /\ \A k \in DOMAIN a : FoldChar(a[k]) = FoldChar(b[k])

MimeJpeg == <<"i","m","a","g","e","/","j","p","e","g">>
MimeJpegUpper == <<"I","M","A","G","E","/","J","P","E","G">>
MimePng == <<"i","m","a","g","e","/","p","n","g">>
MimeText == <<"t","e","x","t","/","p","l","a","i","n",";"," ",
              "c","h","a","r","s","e","t","=","u","t","f","-","8">>
MimeOctet == <<"a","p","p","l","i","c","a","t","i","o","n","/",
               "o","c","t","e","t","-","s","t","r","e","a","m">>

\* http.DetectContentType as called at line 132, on bytes 0..255: the PNG and
\* JPEG signatures, the text signature (no binary byte after the leading
\* white space) and the fallback.
sniffLen == 512
IsWS(c) == c \in {9, 10, 12, 13, 32}
IsBinaryByte(c) ==
    \/ c <= 8
    \/ c = 11
    \/ (14 <= c /\ c <= 26)
    \/ (28 <= c /\ c <= 31)

HasPrefix(data, sig) ==
    /\ Len(data) >= Len(sig)
    /\ \A k \in DOMAIN sig : data[k] = sig[k]

DetectContentType(bytes) ==
    LET data == SubSeq(bytes, 1, Min(Len(bytes), sniffLen))
        firstNonWS ==
            IF \A k \in DOMAIN data : IsWS(data[k])
            THEN Len(data)
            ELSE (CHOOSE k \in DOMAIN data :
                    /\ ~IsWS(data[k])
                    /\ \A m \in 1..(k - 1) : IsWS(data[m])) - 1
    IN  IF HasPrefix(data, <<137, 80, 78, 71, 13, 10, 26, 10>>) THEN MimePng
        ELSE IF HasPrefix(data, <<255, 216, 255>>) THEN MimeJpeg
        ELSE IF \A k \in (firstNonWS + 1)..Len(data) : ~IsBinaryByte(data[k])
             THEN MimeText
        ELSE MimeOctet

\* buf := make([]byte, 512); infile.Read(buf): the part's first bytes, with
\* the zero bytes of the buffer after them when the part is shorter.
bufLen == 512
ReadInto(content) ==
    [k \in 1..bufLen |-> IF k <= Len(content) THEN content[k] ELSE 0]

\* Lines 131-143.
TypeAllowed(fileType, allowedTypes) ==
    IF Len(allowedTypes) > 0
    THEN \E k \in DOMAIN allowedTypes : EqualFold(fileType, allowedTypes[k])
    ELSE TRUE

\* filepath.Ext: from the last dot of the last path element.
Ext(path) ==
    LET dots == { k \in DOMAIN path :
                    /\ path[k] = "."
                    /\ \A m \in k..Len(path) : path[m] # "/" }
    IN  IF dots = {} THEN <<>>
        ELSE LET d == CHOOSE k \in dots : \A m \in dots : m <= k
             IN  SubSeq(path, d, Len(path))

\* RandomString(len) run to its end on the words the generator yields.
RECURSIVE RunLoop(_, _, _, _)
RunLoop(s, len, stream, used) ==
    IF s.i >= len \/ (NeedsWord(s) /\ stream = <<>>)
    THEN [b |-> s.b, draws |-> used]
    ELSE IF NeedsWord(s)
         THEN RunLoop(LoopBody(s, Head(stream)), len, Tail(stream), used + 1)
         ELSE RunLoop(LoopBody(s, s.val), len, stream, used)

RandomStringOn(len, stream) ==
    IF len <= 0 THEN [b |-> <<>>, draws |-> 0]
    ELSE RunLoop(LoopInit(len), len, stream, 0)

WordStreams == {<<WordZero, WordZero, WordZero>>,
                <<WordMix, WordZero, WordMix, WordZero>>}

NoError == "nil"
Faults == {"none", "open", "read", "seek", "create", "copy"}

\* The function literal of lines 116-181 on one part.  fault is the I/O call
\* that fails, if any; stream feeds RandomString.  The result holds what the
\* literal returns (files, err) and what it did on the way.
ProcessPart(files, hdr, fault, renameFile, allowedTypes, stream) ==
    LET buf      == ReadInto(hdr.content)
        fileType == DetectContentType(buf)
        allowed  == TypeAllowed(fileType, allowedTypes)
        token    == RandomStringOn(25, stream)
        newName  == IF renameFile THEN token.b \o Ext(hdr.Filename) ELSE hdr.Filename
        none     == [files |-> <<>>, opened |-> TRUE, checked |-> FALSE,
                     allowed |-> FALSE, draws |-> 0, created |-> FALSE,
                     name |-> <<>>, data |-> <<>>]
    IN  IF fault = "open"
        THEN [none EXCEPT !.opened = FALSE] @@ [err |-> "open failed"]
        ELSE IF fault = "read" THEN none @@ [err |-> "read failed"]
        ELSE IF Len(hdr.content) = 0 THEN none @@ [err |-> "EOF"]
        ELSE IF ~allowed
             THEN [none EXCEPT !.checked = TRUE]
                    @@ [err |-> "uploaded file type is not permitted"]
        ELSE IF fault = "seek"
             THEN [none EXCEPT !.checked = TRUE, !.allowed = TRUE]
                    @@ [err |-> "seek failed"]
        ELSE LET named == [none EXCEPT !.checked = TRUE, !.allowed = TRUE,
                                       !.draws = IF renameFile THEN token.draws ELSE 0,
                                       !.name = newName]
             IN  IF fault = "create" THEN named @@ [err |-> "create failed"]
                 ELSE IF fault = "copy"
                      THEN [named EXCEPT !.created = TRUE] @@ [err |-> "copy failed"]
                 ELSE [named EXCEPT
                          !.created = TRUE,
                          !.data = hdr.content,
                          !.files = Append(files,
                                      [NewFileName |-> newName,
                                       OriginalFileName |-> hdr.Filename,
                                       FileSize |-> Len(hdr.content)])]
                        @@ [err |-> NoError]

ContentJpeg == <<255, 216, 255, 224>>
ContentText == <<104, 105>>
ContentEmpty == <<>>
FileParts ==
    { [Filename |-> <<"c", ".", "j">>, content |-> ContentJpeg],
      [Filename |-> <<"d", ".", "t", "/", "n">>, content |-> ContentText],
      [Filename |-> <<"e">>, content |-> ContentEmpty] }

MaxParts == 2
PartLists == UNION { [1..k -> FileParts] : k \in 0..MaxParts }
AllowLists == {<<>>, <<MimeJpeg>>, <<MimePng, MimeJpegUpper>>, <<MimeText>>}

UploadIdle ==
    /\ req = [entry |-> "none"]
    /\ upc = "idle"
    /\ uploadedFiles = <<>>
    /\ partIdx = 0
    /\ opened = {}
    /\ verdicts = <<>>
    /\ created = {}
    /\ disk = {}
    /\ upRet = [set |-> FALSE]
    /\ ufRet = [set |-> FALSE]

\* A handler calls UploadFiles or UploadFile with a request; rename is the
\* variadic argument.  parseOK and dirOK say whether ParseMultipartForm and
\* CreateDirIfNotExists succeed.
CallUpload ==
    /\ upc = "idle"
    /\ \E entry \in {"UploadFiles", "UploadFile"}, parts \in PartLists,
          rename \in {<<>>, <<TRUE>>, <<FALSE>>}, parseOK, dirOK \in BOOLEAN :
        req' = [entry |-> entry, parts |-> parts, rename |-> rename,
                parseOK |-> parseOK, dirOK |-> dirOK]
    /\ upc' = "begin"
    /\ UNCHANGED <<t, rng, notUp, uploadedFiles, partIdx, opened, verdicts, created, disk, upRet, ufRet>>

\* Lines 80-83 and 94-97.
RenameFile(rename) == IF Len(rename) > 0 THEN rename[1] ELSE TRUE

\* Lines 94-112: the default size is stored in the Tools value, the form is
\* parsed and the directory made.
UploadFilesBegin ==
    /\ upc = "begin"
    /\ t' = IF t.MaxFileSize = 0 THEN [t EXCEPT !.MaxFileSize = defaultMaxFileSize] ELSE t
    /\ uploadedFiles' = <<>>
    /\ IF ~req.parseOK
       THEN /\ upRet' = [set |-> TRUE, files |-> <<>>, err |-> "uploaded file is too big"]
            /\ upc' = "returned"
            /\ UNCHANGED partIdx
       ELSE IF ~req.dirOK
       THEN /\ upRet' = [set |-> TRUE, files |-> <<>>, err |-> "mkdir failed"]
            /\ upc' = "returned"
            /\ UNCHANGED partIdx
       ELSE /\ upc' = "parts"
            /\ partIdx' = 1
            /\ UNCHANGED upRet
    /\ UNCHANGED <<rng, notUp, req, opened, verdicts, created, disk, ufRet>>

\* os.Create and io.Copy: the file of that name now holds data.
WriteFile(files, name, data) ==
    { f \in files : f.name # name } \cup {[name |-> name, data |-> data]}

\* Lines 115-185: one part goes through the function literal, whose two
\* results are assigned to uploadedFiles and err; an error ends the call.
UploadFilesPart ==
    /\ upc = "parts"
    /\ partIdx <= Len(req.parts)
    /\ \E fault \in Faults, stream \in WordStreams :
        LET r == ProcessPart(uploadedFiles, req.parts[partIdx], fault,
                             RenameFile(req.rename), t.AllowedFileTypes, stream)
        IN  /\ uploadedFiles' = r.files
            /\ opened' = IF r.opened THEN opened \cup {partIdx} ELSE opened
            /\ verdicts' = IF r.checked
                           THEN verdicts @@ (partIdx :> r.allowed)
                           ELSE verdicts
            /\ disk' = IF r.created THEN WriteFile(disk, r.name, r.data) ELSE disk
            /\ created' = IF r.created THEN created \cup {partIdx} ELSE created
            /\ rng' = rng + r.draws
            /\ IF r.err # NoError
               THEN /\ upRet' = [set |-> TRUE, files |-> r.files, err |-> r.err]
                    /\ upc' = "returned"
                    /\ UNCHANGED partIdx
               ELSE /\ partIdx' = partIdx + 1
                    /\ UNCHANGED <<upRet, upc>>
    /\ UNCHANGED <<t, notUp, req, ufRet>>

\* Line 188.
UploadFilesReturn ==
    /\ upc = "parts"
    /\ partIdx > Len(req.parts)
    /\ upRet' = [set |-> TRUE, files |-> uploadedFiles, err |-> NoError]
    /\ upc' = "returned"
    /\ UNCHANGED <<t, rng, notUp, req, uploadedFiles, partIdx, opened, verdicts, created, disk, ufRet>>

\* Lines 85-90: UploadFile hands on the error, or indexes the slice at 0,
\* which panics on an empty slice.
UploadFileReturn ==
    /\ upc = "returned"
    /\ req.entry = "UploadFile"
    /\ ufRet' = IF upRet.err # NoError
                THEN [set |-> TRUE, outcome |-> "error", err |-> upRet.err]
                ELSE IF Len(upRet.files) > 0
                THEN [set |-> TRUE, outcome |-> "file", file |-> upRet.files[1]]
                ELSE [set |-> TRUE, outcome |-> "panic"]
    /\ upc' = "done"
    /\ UNCHANGED <<t, rng, notUp, req, uploadedFiles, partIdx, opened, verdicts, created, disk, upRet>>

--------------------------------------------------------------------------
(***************************************************************************)
(* ReadJSON (src/tool.go:236-285).  The body is a sequence of characters;  *)
(* the decoder is encoding/json's Decoder over http.MaxBytesReader, on the *)
(* JSON of objects, strings and numbers.                                   *)
(***************************************************************************)
defaultMaxJSONSize == 1024 * 1024
minRead == 512

IsSpace(c) == c \in {" ", "\t", "\r", "\n"}
IsDigit(c) == \E k \in DOMAIN Digits : Digits[k] = c
Quote == "\""

\* http.MaxBytesReader over the request's body.  rd.pos bytes of the body
\* are consumed, rd.n more are allowed, rd.err is the sticky error.  A read
\* that finds more than the allowance hands over the allowed bytes together
\* with the MaxBytesError.
NewMaxBytesReader(limit) == [pos |-> 0, n |-> limit, err |-> NoError]

MaxBytesRead(rd, body, plen) ==
    IF rd.err # NoError THEN [data |-> <<>>, err |-> rd.err, rd |-> rd]
    ELSE LET want == IF plen - 1 > rd.n THEN rd.n + 1 ELSE plen
             got  == Min(want, Len(body) - rd.pos)
             uerr == IF got = 0 THEN "EOF" ELSE NoError
         IN  IF got <= rd.n
             THEN [data |-> SubSeq(body, rd.pos + 1, rd.pos + got),
                   err  |-> uerr,
                   rd   |-> [pos |-> rd.pos + got, n |-> rd.n - got, err |-> uerr]]
             ELSE [data |-> SubSeq(body, rd.pos + 1, rd.pos + rd.n),
                   err  |-> "MaxBytesError",
                   rd   |-> [pos |-> rd.pos + got, n |-> 0, err |-> "MaxBytesError"]]

\* encoding/json's scanner: s.step is the state, s.ps the parse stack.
ScanReset == [step |-> "beginValue", ps |-> <<>>]

ScanError(s) == [s |-> [s EXCEPT !.step = "error"], op |-> "error"]
ScanGo(s, step) == [s |-> [s EXCEPT !.step = step], op |-> "continue"]

SetTop(ps, v) == [ps EXCEPT ![Len(ps)] = v]
Front(ps) == SubSeq(ps, 1, Len(ps) - 1)

StateEndValue(s, c) ==
    IF s.ps = <<>> THEN [s |-> [s EXCEPT !.step = "endTop"], op |-> "end"]
    ELSE IF IsSpace(c) THEN ScanGo(s, "endValue")
    ELSE IF s.ps[Len(s.ps)] = "key"
         THEN IF c = ":"
              THEN ScanGo([s EXCEPT !.ps = SetTop(s.ps, "value")], "beginValue")
              ELSE ScanError(s)
    ELSE IF c = ","
         THEN ScanGo([s EXCEPT !.ps = SetTop(s.ps, "key")], "beginString")
    ELSE IF c = "}"
         THEN [s  |-> [step |-> IF Len(s.ps) = 1 THEN "endTop" ELSE "endValue",
                       ps   |-> Front(s.ps)],
               op |-> "endObject"]
    ELSE ScanError(s)

StateBeginString(s, c) ==
    IF IsSpace(c) THEN [s |-> s, op |-> "continue"]
    ELSE IF c = Quote THEN ScanGo(s, "inString")
    ELSE ScanError(s)

StateBeginValue(s, c) ==
    IF IsSpace(c) THEN [s |-> s, op |-> "continue"]
    ELSE IF c = "{"
         THEN ScanGo([s EXCEPT !.ps = Append(s.ps, "key")], "beginStringOrEmpty")
    ELSE IF c = Quote THEN ScanGo(s, "inString")
    ELSE IF c = "0" THEN ScanGo(s, "state0")
    ELSE IF IsDigit(c) THEN ScanGo(s, "state1")
    ELSE ScanError(s)

ScanStep(s, c) ==
    CASE s.step = "beginValue" -> StateBeginValue(s, c)
      [] s.step = "beginStringOrEmpty" ->
            IF IsSpace(c) THEN [s |-> s, op |-> "continue"]
            ELSE IF c = "}"
                 THEN StateEndValue([s EXCEPT !.ps = SetTop(s.ps, "value")], c)
            ELSE StateBeginString(s, c)
      [] s.step = "beginString" -> StateBeginString(s, c)
      [] s.step = "inString" ->
            IF c = Quote THEN ScanGo(s, "endValue") ELSE [s |-> s, op |-> "continue"]
      [] s.step = "endValue" -> StateEndValue(s, c)
      [] s.step = "state1" ->
            IF IsDigit(c) THEN [s |-> s, op |-> "continue"] ELSE StateEndValue(s, c)
      [] s.step = "state0" -> StateEndValue(s, c)
      [] s.step = "endTop" -> [s |-> s, op |-> "end"]
      [] OTHER -> ScanError(s)

\* The inner loop of Decoder.readValue: scan buf from scanp on.
RECURSIVE ScanBuf(_, _, _)
ScanBuf(buf, scanp, s) ==
    IF scanp >= Len(buf) THEN [kind |-> "more", scanp |-> scanp, s |-> s]
    ELSE LET After(r) ==
                 IF r.op = "end" THEN [kind |-> "end", scanp |-> scanp, s |-> r.s]
                 ELSE IF r.op = "endObject" /\ StateEndValue(r.s, " ").op = "end"
                      THEN [kind |-> "end", scanp |-> scanp + 1, s |-> r.s]
                 ELSE IF r.op = "error"
                      THEN [kind |-> "error", scanp |-> scanp, s |-> r.s]
                 ELSE ScanBuf(buf, scanp + 1, r.s)
         IN  Only({ After(r) : r \in {ScanStep(s, buf[scanp + 1])} })

NonSpace(buf) == \E k \in DOMAIN buf : ~IsSpace(buf[k])

\* Decoder.refill: slide the consumed bytes out, then read at least minRead.
Refill(dec, body) ==
    LET r == MaxBytesRead(dec.rd, body, minRead)
    IN  [dec |-> [dec EXCEPT !.buf = SubSeq(dec.buf, dec.scanp + 1, Len(dec.buf)) \o r.data,
                             !.scanned = dec.scanned + dec.scanp,
                             !.scanp = 0,
                             !.rd = r.rd],
         err |-> r.err]

\* Decoder.readValue: rel is the scan position relative to dec.scanp and err
\* the error of the last read, looked at only once the buffer is scanned.
RECURSIVE ReadValue(_, _, _, _, _)
ReadValue(dec, body, s, rel, err) ==
    LET Again(r, f) == ReadValue(f.dec, body, r.s, r.scanp - dec.scanp, f.err)
        After(r) ==
            IF r.kind = "end"
            THEN [err |-> [type |-> NoError], n |-> r.scanp - dec.scanp, dec |-> dec]
            ELSE IF r.kind = "error"
            THEN LET e == [type |-> "SyntaxError", offset |-> dec.scanned + r.scanp + 1]
                 IN  [err |-> e, n |-> 0, dec |-> [dec EXCEPT !.err = e]]
            ELSE IF err # NoError
            THEN IF err = "EOF" /\ ScanStep(r.s, " ").op = "end"
                 THEN [err |-> [type |-> NoError], n |-> r.scanp - dec.scanp, dec |-> dec]
                 ELSE LET e == [type |-> IF err = "EOF" /\ NonSpace(dec.buf)
                                         THEN "ErrUnexpectedEOF" ELSE err]
                      IN  [err |-> e, n |-> 0, dec |-> [dec EXCEPT !.err = e]]
            ELSE Only({ Again(r, f) : f \in {Refill(dec, body)} })
    IN  Only({ After(r) : r \in {ScanBuf(dec.buf, dec.scanp + rel, s)} })

\* The text of a value the scanner accepted, taken apart.
RECURSIVE SkipWS(_, _)
SkipWS(txt, k) == IF k <= Len(txt) /\ IsSpace(txt[k]) THEN SkipWS(txt, k + 1) ELSE k

RECURSIVE StringEnd(_, _)
StringEnd(txt, k) == IF txt[k] = Quote THEN k ELSE StringEnd(txt, k + 1)

RECURSIVE NumberEnd(_, _)
NumberEnd(txt, k) ==
    IF k < Len(txt) /\ IsDigit(txt[k + 1]) THEN NumberEnd(txt, k + 1) ELSE k

RECURSIVE ObjectEnd(_, _, _, _)
ObjectEnd(txt, k, depth, inStr) ==
    LET c == txt[k]
    IN  IF inStr THEN ObjectEnd(txt, k + 1, depth, c # Quote)
        ELSE IF c = Quote THEN ObjectEnd(txt, k + 1, depth, TRUE)
        ELSE IF c = "{" THEN ObjectEnd(txt, k + 1, depth + 1, FALSE)
        ELSE IF c = "}"
             THEN IF depth = 1 THEN k ELSE ObjectEnd(txt, k + 1, depth - 1, FALSE)
        ELSE ObjectEnd(txt, k + 1, depth, FALSE)

ValueKind(c) == IF c = "{" THEN "object" ELSE IF c = Quote THEN "string" ELSE "number"

ValueEnd(txt, k) ==
    IF txt[k] = "{" THEN ObjectEnd(txt, k + 1, 1, FALSE)
    ELSE IF txt[k] = Quote THEN StringEnd(txt, k + 1)
    ELSE NumberEnd(txt, k)

\* The members of the object whose text starts at txt[k - 1] = "{": each
\* with its key, the kind of its value and the offset after the value.
RECURSIVE ObjectMembers(_, _)
ObjectMembers(txt, k) ==
    LET Member(ks, ke, vs, ve) ==
            [key |-> SubSeq(txt, ks + 1, ke - 1), kind |-> ValueKind(txt[vs]),
             end |-> ve, next |-> SkipWS(txt, ve + 1)]
        Rest(m) ==
            IF txt[m.next] = ","
            THEN <<m>> \o ObjectMembers(txt, m.next + 1)
            ELSE <<m>>
        From(ks) ==
            IF txt[ks] = "}" THEN <<>>
            ELSE Only({ Rest(m) :
                   m \in { Member(ks, ke, vs, ValueEnd(txt, vs)) :
                           ke \in {StringEnd(txt, ks + 1)},
                           vs \in {SkipWS(txt, SkipWS(txt, StringEnd(txt, ks + 1) + 1) + 1)} } })
    IN  Only({ From(ks) : ks \in {SkipWS(txt, k)} })

\* The target of the tests: a pointer to struct { Foo string `json:"foo"` }.
FieldFoo == <<"f", "o", "o">>

\* decodeState.unmarshal into the target: the first error saved wins.
RECURSIVE MemberErrors(_, _)
MemberErrors(ms, disallowUnknown) ==
    IF ms = <<>> THEN <<>>
    ELSE LET m == Head(ms)
             e == IF EqualFold(m.key, FieldFoo)
                  THEN IF m.kind = "string" THEN <<>>
                       ELSE <<[type |-> "UnmarshalTypeError", field |-> FieldFoo,
                               offset |-> m.end]>>
                  ELSE IF disallowUnknown
                       THEN <<[type |-> "UnknownField", key |-> m.key]>>
                       ELSE <<>>
         IN  e \o MemberErrors(Tail(ms), disallowUnknown)

Unmarshal(txt, targetValid, disallowUnknown) ==
    IF ~targetValid THEN [type |-> "InvalidUnmarshalError"]
    ELSE LET k == SkipWS(txt, 1)
         IN  IF txt[k] = "{"
             THEN LET es == MemberErrors(ObjectMembers(txt, k + 1), disallowUnknown)
                  IN  IF es = <<>> THEN [type |-> NoError] ELSE es[1]
             ELSE [type |-> "UnmarshalTypeError", field |-> <<>>,
                   offset |-> ValueEnd(txt, k)]

NewDecoder(limit) ==
    [buf |-> <<>>, scanp |-> 0, scanned |-> 0, err |-> [type |-> NoError],
     rd |-> NewMaxBytesReader(limit)]

\* Decoder.Decode.
Decode(dec, body, targetValid, disallowUnknown) ==
    IF dec.err.type # NoError THEN [err |-> dec.err, dec |-> dec]
    ELSE LET After(r) ==
                 IF r.err.type # NoError THEN [err |-> r.err, dec |-> r.dec]
                 ELSE [err |-> Unmarshal(SubSeq(r.dec.buf, r.dec.scanp + 1,
                                                r.dec.scanp + r.n),
                                         targetValid, disallowUnknown),
                       dec |-> [r.dec EXCEPT !.scanp = r.dec.scanp + r.n]]
         IN  Only({ After(r) : r \in {ReadValue(dec, body, ScanReset, 0, NoError)} })

\* Lines 237-240.
MaxBytes(tools) == IF tools.MaxJSONSize = 0 THEN defaultMaxJSONSize ELSE tools.MaxJSONSize

\* fmt's %v of a *string prints the pointer, not the string it points to.
Addresses ==
    {<<"0", "x", "c", "0", "0", "0", "0", "1", "2", "3", "4", "0">>,
     <<"0", "x", "c", "0", "0", "0", "0", "a", "6", "0", "1", "8">>}

\* Lines 255-276: the switch over the first Decode's error; addr is what
\* &unmarshalTypeError.Field formats as.
DecodeErrorMessage(err, maxBytes, addr) ==
    CASE err.type = "SyntaxError" ->
            <<"body contains badly formed JSON at character ", err.offset>>
      [] err.type = "ErrUnexpectedEOF" -> <<"body contains badly formed JSON">>
      [] err.type = "UnmarshalTypeError" ->
            IF err.field # <<>>
            THEN <<"body contains incorrect JSON type for field ", addr>>
            ELSE <<"body contains incorrect JSON type at character ", err.offset>>
      [] err.type = "EOF" -> <<"body must not be empty">>
      [] err.type = "UnknownField" -> <<"body contains unknown key ", err.key>>
      [] err.type = "MaxBytesError" ->
            <<"body must not be larger than ", maxBytes, " bytes">>
      [] err.type = "InvalidUnmarshalError" -> <<"error unmarshalling JSON: ", err.type>>
      [] OTHER -> <<err.type>>

\* ReadJSON with its second Decode left out.
ReadJSONOneDecode(tools, body, targetValid, addr) ==
    LET maxBytes == MaxBytes(tools)
        After(d1) ==
            IF d1.err.type # NoError
            THEN [msg |-> DecodeErrorMessage(d1.err, maxBytes, addr),
                  first |-> d1.err, second |-> [type |-> "none"]]
            ELSE [msg |-> <<>>, first |-> d1.err, second |-> [type |-> "none"]]
    IN  Only({ After(d1) :
               d1 \in {Decode(NewDecoder(maxBytes), body, targetValid,
                              ~tools.JSONAllowUnknownFields)} })

\* ReadJSON: the message of the error returned (<<>> for nil), with the
\* errors of the two Decode calls.
ReadJSONResult(tools, body, targetValid, addr) ==
    LET maxBytes == MaxBytes(tools)
        Second(d1, d2) ==
            IF d2.err.type # "EOF"
            THEN [msg |-> <<"body must contain exactly one JSON object">>,
                  first |-> d1.err, second |-> d2.err]
            ELSE [msg |-> <<>>, first |-> d1.err, second |-> d2.err]
        After(d1) ==
            IF d1.err.type # NoError
            THEN [msg |-> DecodeErrorMessage(d1.err, maxBytes, addr),
                  first |-> d1.err, second |-> [type |-> "none"]]
            ELSE Only({ Second(d1, d2) : d2 \in {Decode(d1.dec, body, TRUE, FALSE)} })
    IN  Only({ After(d1) :
               d1 \in {Decode(NewDecoder(maxBytes), body, targetValid,
                              ~tools.JSONAllowUnknownFields)} })

Q(str) == <<Quote>> \o str \o <<Quote>>
BodyValid == <<"{">> \o Q(FieldFoo) \o <<":">> \o Q(<<"b">>) \o <<"}">>
BodyWrongType == <<"{">> \o Q(FieldFoo) \o <<":", "1", "}">>
BodyUnknown == <<"{">> \o Q(<<"x">>) \o <<":">> \o Q(<<"b">>) \o <<"}">>
BodyUnknownThenWrong ==
    <<"{">> \o Q(<<"x">>) \o <<":", "1", ",">> \o Q(<<"F", "o", "o">>) \o <<":", "{", "}", "}">>
BodyNoValue == <<"{">> \o Q(FieldFoo) \o <<":", "}">>
BodyBareKey == <<"{", "x", ":">> \o Q(<<"b">>) \o <<"}">>
BodyEmptyObject == <<" ", "{", " ", "}">>
BodyString == Q(<<"s">>)
BodyNumber == <<"1", "2">>
BodyNotJSON == <<"x">>
FirstValues == {BodyValid, BodyWrongType, BodyUnknown, BodyUnknownThenWrong,
                BodyNoValue, BodyBareKey, BodyEmptyObject, BodyString,
                BodyNumber, BodyNotJSON, <<>>}
Trailers == {<<>>, <<" ">>, <<"{", "}">>, <<" ", "x">>, <<"\n", "7">>, Q(<<"b">>)}

\* Every prefix of a first value followed by a trailer.
Bodies ==
    UNION { { SubSeq(a \o b, 1, k) : k \in 0..Len(a \o b) } :
            a \in FirstValues, b \in Trailers }

MaxLimit == 12

JSONIdle ==
    /\ jreq = [set |-> FALSE]
    /\ jret = [set |-> FALSE]

\* A handler receives a request and hands ReadJSON a target.
NewJSONRequest ==
    /\ ~jreq.set
    /\ \E body \in Bodies, targetValid \in BOOLEAN :
        jreq' = [set |-> TRUE, body |-> body, targetValid |-> targetValid]
    /\ UNCHANGED <<t, notJSON, jret>>

ReadJSON ==
    /\ jreq.set
    /\ ~jret.set
    /\ \E addr \in Addresses :
        jret' = [set |-> TRUE] @@ ReadJSONResult(t, jreq.body, jreq.targetValid, addr)
    /\ UNCHANGED <<t, notJSON, jreq>>

--------------------------------------------------------------------------
(***************************************************************************)
(* WriteJSON and ErrorJSON (src/tool.go:230-323).  The response writer     *)
(* records what is done to it: w.log is the order of the calls, w.sent the *)
(* header as it stood when the status line was written.                    *)
(***************************************************************************)
StatusBadRequest == 400

\* A byte that is no valid UTF-8, and the rune json.Marshal puts in its place.
InvalidByte == "xFF"
ReplacementRune == "U+FFFD"

\* json.Marshal's encoding of one character of a string: quote and
\* backslash escaped, the HTML characters and invalid UTF-8 as \u escapes.
EscapeChar(c) ==
    CASE c = Quote -> "\\\""
      [] c = "\\" -> "\\\\"
      [] c = "<" -> "\\u003c"
      [] c = InvalidByte -> "\\ufffd"
      [] OTHER -> c

\* The decoder's reading of one character of a string literal.
UnescapeChar(e) ==
    CASE e = "\\\"" -> Quote
      [] e = "\\\\" -> "\\"
      [] e = "\\u003c" -> "<"
      [] e = "\\ufffd" -> ReplacementRune
      [] OTHER -> e

EscapeString(str) == [k \in DOMAIN str |-> EscapeChar(str[k])]
UnescapeString(lit) == [k \in DOMAIN lit |-> UnescapeChar(lit[k])]

\* json.Marshal of a JSONResponse; Data is "nil" (left out: omitempty), a
\* string, or a value json cannot encode.
MarshalOK(payload) == payload.Data # "chan"

MarshalJSONResponse(payload) ==
    <<"{", Quote, "error", Quote, ":", IF payload.Error THEN "true" ELSE "false",
      ",", Quote, "message", Quote, ":", Quote>>
    \o EscapeString(payload.Message) \o <<Quote>>
    \o (IF payload.Data = "nil" THEN <<>>
        ELSE <<",", Quote, "data", Quote, ":", Quote, payload.Data, Quote>>)
    \o <<"}">>

ContentType == "Content-Type"
ApplicationJSON == "application/json"

\* WriteJSON with the status line written before the Content-Type header
\* is set.
WriteJSONStatusFirst(w, status, payload, headers, writeOK) ==
    IF ~MarshalOK(payload) THEN [w |-> w, err |-> "json: unsupported type"]
    ELSE LET h1 == IF Len(headers) > 0
                   THEN [k \in DOMAIN w.header \cup DOMAIN headers[1] |->
                            IF k \in DOMAIN headers[1] THEN headers[1][k] ELSE w.header[k]]
                   ELSE w.header
             h2 == [k \in DOMAIN h1 \cup {ContentType} |->
                        IF k = ContentType THEN ApplicationJSON ELSE h1[k]]
             w1 == [w EXCEPT !.status = status, !.sent = h1,
                             !.log = w.log \o <<"WriteHeader">>]
             w2 == [w1 EXCEPT !.header = h2, !.log = w1.log \o <<"SetContentType">>]
             w3 == [w2 EXCEPT !.log = w2.log \o <<"Write">>]
         IN  IF writeOK
             THEN [w |-> [w3 EXCEPT !.body = MarshalJSONResponse(payload)], err |-> NoError]
             ELSE [w |-> w3, err |-> "write failed"]

\* WriteJSON (lines 287-308): marshal, copy the caller's headers, set the
\* Content-Type, write the status line, write the body.
WriteJSONOn(w, status, payload, headers, writeOK) ==
    IF ~MarshalOK(payload) THEN [w |-> w, err |-> "json: unsupported type"]
    ELSE LET h1 == IF Len(headers) > 0
                   THEN [k \in DOMAIN w.header \cup DOMAIN headers[1] |->
                            IF k \in DOMAIN headers[1] THEN headers[1][k] ELSE w.header[k]]
                   ELSE w.header
             h2 == [k \in DOMAIN h1 \cup {ContentType} |->
                        IF k = ContentType THEN ApplicationJSON ELSE h1[k]]
             w1 == [w EXCEPT !.header = h2, !.log = w.log \o <<"SetContentType">>]
             w2 == [w1 EXCEPT !.status = status, !.sent = h2,
                              !.log = w1.log \o <<"WriteHeader">>]
             w3 == [w2 EXCEPT !.log = w2.log \o <<"Write">>]
         IN  IF writeOK
             THEN [w |-> [w3 EXCEPT !.body = MarshalJSONResponse(payload)], err |-> NoError]
             ELSE [w |-> w3, err |-> "write failed"]

\* ErrorJSON (lines 310-323).
ErrorJSONOn(w, errMsg, status, writeOK) ==
    LET statusCode == IF Len(status) > 0 THEN status[1] ELSE StatusBadRequest
        payload    == [Error |-> TRUE, Message |-> errMsg, Data |-> "nil"]
    IN  WriteJSONOn(w, statusCode, payload, <<>>, writeOK)

MaxMsgLen == 2
MsgChars == {"F", Quote, "<", InvalidByte}
Messages == UNION { [1..k -> MsgChars] : k \in 0..MaxMsgLen }
StatusArgs == {<<>>, <<503>>, <<200>>, <<404, 500>>}
NoHeader == [k \in {} |-> ""]
PresetHeaders == {NoHeader, [k \in {ContentType} |-> "text/html"]}
ExtraHeaders == {<<>>, <<[k \in {"Foo"} |-> "Bar"]>>,
                 <<[k \in {ContentType} |-> "text/plain"]>>}

NewResponseWriter(header) ==
    [header |-> header, sent |-> NoHeader, status |-> 0, body |-> <<>>, log |-> <<>>]

WriteIdle ==
    /\ wcall = [fn |-> "none"]
    /\ rw = NewResponseWriter(NoHeader)
    /\ wret = [set |-> FALSE]

\* A handler gets its response writer, on which it may have set headers.
NewResponse ==
    /\ wcall.fn = "none"
    /\ \E h \in PresetHeaders : rw' = NewResponseWriter(h)
    /\ wcall' = [fn |-> "handler"]
    /\ UNCHANGED <<t, notWrite, wret>>

\* The handler calls ErrorJSON(w, err, status...); writeOK says whether
\* w.Write succeeds.
ErrorJSON ==
    /\ wcall.fn = "handler"
    /\ \E errMsg \in Messages, status \in StatusArgs, writeOK \in BOOLEAN :
        LET r == ErrorJSONOn(rw, errMsg, status, writeOK)
        IN  /\ wcall' = [fn |-> "ErrorJSON", msg |-> errMsg, status |-> status,
                         writeOK |-> writeOK]
            /\ rw' = r.w
            /\ wret' = [set |-> TRUE, err |-> r.err]
    /\ UNCHANGED <<t, notWrite>>

\* The handler calls WriteJSON(w, status, payload, headers...).
WriteJSON ==
    /\ wcall.fn = "handler"
    /\ \E isError \in BOOLEAN, data \in {"nil", "d", "chan"},
          status \in {200, 404}, headers \in ExtraHeaders, writeOK \in BOOLEAN :
        LET payload == [Error |-> isError, Message |-> <<"F">>, Data |-> data]
            r == WriteJSONOn(rw, status, payload, headers, writeOK)
        IN  /\ wcall' = [fn |-> "WriteJSON", payload |-> payload, status |-> status,
                         headers |-> headers, writeOK |-> writeOK]
            /\ rw' = r.w
            /\ wret' = [set |-> TRUE, err |-> r.err]
    /\ UNCHANGED <<t, notWrite>>

--------------------------------------------------------------------------
(***************************************************************************)
(* PushJSONToRemote (src/tool.go:325-350) and the caller that gets the     *)
(* response.                                                               *)
(***************************************************************************)
MaxBodyLen == 3
BodyBytes == {"o", "k"}
ResponseBodies == UNION { [1..k -> BodyBytes] : k \in 0..MaxBodyLen }

\* transport: the body of a response off the wire, which fails every read
\* after Close; nopCloser: the test's ioutil.NopCloser, whose Close does
\* nothing.
BodyKinds == {"transport", "nopCloser"}

PushIdle ==
    /\ ppc = "idle"
    /\ presp = [set |-> FALSE]
    /\ pbody = [kind |-> "none", data |-> <<>>, pos |-> 0, closeCalls |-> 0]
    /\ pread = [data |-> <<>>, err |-> NoError]

\* One call, start to return.  outcome is what the marshalling, the building
\* of the request and the client do; on success the deferred
\* response.Body.Close() of line 347 runs as the function returns.
PushJSONToRemote ==
    /\ ppc = "idle"
    /\ \E outcome \in {"marshal error", "request error", "client error", "ok"},
          status \in {200, 500}, kind \in BodyKinds, data \in ResponseBodies :
        IF outcome # "ok"
        THEN /\ presp' = [set |-> TRUE, response |-> "nil", status |-> 0, err |-> outcome]
             /\ UNCHANGED pbody
        ELSE /\ presp' = [set |-> TRUE, response |-> "response", status |-> status,
                          err |-> NoError]
             /\ pbody' = [kind |-> kind, data |-> data, pos |-> 0, closeCalls |-> 1]
    /\ ppc' = "returned"
    /\ UNCHANGED <<t, notPush, pread>>

BodyClosed(b) == b.kind = "transport" /\ b.closeCalls > 0

\* The caller reads the next byte of the body of the response it was given.
CallerRead ==
    /\ ppc \in {"returned", "reading"}
    /\ presp.err = NoError
    /\ pread.err = NoError
    /\ IF BodyClosed(pbody)
       THEN /\ pread' = [pread EXCEPT !.err = "http: read on closed response body"]
            /\ UNCHANGED pbody
       ELSE IF pbody.pos >= Len(pbody.data)
       THEN /\ pread' = [pread EXCEPT !.err = "EOF"]
            /\ UNCHANGED pbody
       ELSE /\ pread' = [pread EXCEPT !.data = Append(@, pbody.data[pbody.pos + 1])]
            /\ pbody' = [pbody EXCEPT !.pos = @ + 1]
    /\ ppc' = "reading"
    /\ UNCHANGED <<t, notPush, presp>>

--------------------------------------------------------------------------
ToolsValues ==
    [MaxFileSize : {0, 1024}, AllowedFileTypes : {<<>>},
     MaxJSONSize : {0}, JSONAllowUnknownFields : {FALSE}]

RandomIdle ==
    /\ mu = 0
    /\ rng = 0
    /\ pc = [p \in Callers |-> "idle"]
    /\ op = [p \in Callers |-> "none"]
    /\ n = [p \in Callers |-> 0]
    /\ st = [p \in Callers |-> LoopInit(0)]
    /\ res = [p \in Callers |-> <<>>]
    /\ locked = [p \in Callers |-> FALSE]
    /\ drew = [p \in Callers |-> FALSE]
    /\ rejected = [p \in Callers |-> FALSE]

InitRandom ==
    /\ t \in ToolsValues
    /\ RandomIdle
    /\ UploadIdle
    /\ JSONIdle
    /\ WriteIdle
    /\ PushIdle

NextRandom ==
    \E p \in Callers :
        \/ CallRandomString(p)
        \/ RandomStringEntry(p)
        \/ RandomStringLock(p)
        \/ RandomStringLoop(p)
        \/ RandomStringUnlock(p)
        \/ CallUploadFiles(p)
        \/ UploadFilesCheck(p)
        \/ UploadFilesDefault(p)
        \/ UploadFilesParts(p)
        \/ CallerDone(p)

SpecRandom == InitRandom /\ [][NextRandom]_vars


UploadTools ==
    [MaxFileSize : {0, 1024}, AllowedFileTypes : AllowLists,
     MaxJSONSize : {0}, JSONAllowUnknownFields : {FALSE}]

InitUpload ==
    /\ t \in UploadTools
    /\ RandomIdle
    /\ UploadIdle
    /\ JSONIdle
    /\ WriteIdle
    /\ PushIdle

NextUpload ==
    \/ CallUpload
    \/ UploadFilesBegin
    \/ UploadFilesPart
    \/ UploadFilesReturn
    \/ UploadFileReturn

SpecUpload == InitUpload /\ [][NextUpload]_vars


JSONTools ==
    [MaxFileSize : {0}, AllowedFileTypes : {<<>>},
     MaxJSONSize : 0..MaxLimit, JSONAllowUnknownFields : BOOLEAN]

InitJSON ==
    /\ t \in JSONTools
    /\ RandomIdle
    /\ UploadIdle
    /\ JSONIdle
    /\ WriteIdle
    /\ PushIdle

NextJSON ==
    \/ NewJSONRequest
    \/ ReadJSON

SpecJSON == InitJSON /\ [][NextJSON]_vars


ZeroTools ==
    [MaxFileSize |-> 0, AllowedFileTypes |-> <<>>,
     MaxJSONSize |-> 0, JSONAllowUnknownFields |-> FALSE]

InitWrite ==
    /\ t = ZeroTools
    /\ RandomIdle
    /\ UploadIdle
    /\ JSONIdle
    /\ WriteIdle
    /\ PushIdle

NextWrite ==
    \/ NewResponse
    \/ ErrorJSON
    \/ WriteJSON

SpecWrite == InitWrite /\ [][NextWrite]_vars

InitPush == InitWrite

NextPush ==
    \/ PushJSONToRemote
    \/ CallerRead

SpecPush == InitPush /\ [][NextPush]_vars

--------------------------------------------------------------------------
(***************************************************************************)
(* The claims.                                                             *)
(***************************************************************************)

\* C1: when part j of an upload fails after parts 1..j-1 were persisted,
\* UploadFiles returns the error together with exactly the j-1 records of
\* the persisted parts.
C1_PartialRecordsReturned ==
    (upRet.set /\ upRet.err # NoError /\ partIdx >= 1) =>
        /\ Len(upRet.files) = partIdx - 1
        /\ \A k \in 1..(partIdx - 1) :
              /\ k \in DOMAIN upRet.files
              /\ upRet.files[k].OriginalFileName = req.parts[k].Filename

\* C2: UploadFile always ends by returning a value, the first record or an
\* error; it does not index an empty record list.
C2_UploadFileReturnsValue ==
    ufRet.set => ufRet.outcome \in {"file", "error"}

LeadingBytes(content) == SubSeq(content, 1, Min(Len(content), bufLen))

\* C3: a part is accepted iff AllowedFileTypes is empty or the type sniffed
\* from the part's leading bytes equals, case-insensitively, an entry of it;
\* at the first rejected part the call fails with the unsupported-type error,
\* no file is created for that part and no later part is opened.
C3_AcceptedIffTypeListed ==
    \A j \in DOMAIN verdicts :
        /\ verdicts[j] <=>
              \/ Len(t.AllowedFileTypes) = 0
              \/ \E k \in DOMAIN t.AllowedFileTypes :
                    EqualFold(DetectContentType(LeadingBytes(req.parts[j].content)),
                              t.AllowedFileTypes[k])
        /\ ~verdicts[j] =>
              /\ upRet.set
              /\ upRet.err = "uploaded file type is not permitted"
              /\ j \notin created
              /\ \A m \in opened : m <= j

TooLargeMessage == <<"body must not be larger than ", MaxBytes(t), " bytes">>
NotOneValueMessage == <<"body must contain exactly one JSON object">>

\* C4: a body longer than the effective limit always makes ReadJSON fail
\* with the body-too-large error carrying the limit, whatever the body holds.
C4_OversizeIsBodyTooLarge ==
    (jret.set /\ Len(jreq.body) > MaxBytes(t)) => jret.msg = TooLargeMessage

\* The JSON grammar, read off the text: the index of the last character of
\* the value that starts at txt[k], or 0 when none does.
RECURSIVE GrammarValueEnd(_, _)
RECURSIVE GrammarMembersEnd(_, _, _)
GrammarStringEnd(txt, k) ==
    IF k <= Len(txt) /\ txt[k] = Quote /\ \E m \in (k + 1)..Len(txt) : txt[m] = Quote
    THEN CHOOSE m \in (k + 1)..Len(txt) :
            txt[m] = Quote /\ \A x \in (k + 1)..(m - 1) : txt[x] # Quote
    ELSE 0

GrammarValueEnd(txt, k) ==
    IF k > Len(txt) THEN 0
    ELSE IF txt[k] = Quote THEN GrammarStringEnd(txt, k)
    ELSE IF txt[k] = "0" THEN k
    ELSE IF IsDigit(txt[k])
         THEN CHOOSE m \in k..Len(txt) :
                /\ \A x \in k..m : IsDigit(txt[x])
                /\ (m = Len(txt) \/ ~IsDigit(txt[m + 1]))
    ELSE IF txt[k] = "{" THEN GrammarMembersEnd(txt, SkipWS(txt, k + 1), TRUE)
    ELSE 0

GrammarMembersEnd(txt, k, first) ==
    IF k > Len(txt) THEN 0
    ELSE IF first /\ txt[k] = "}" THEN k
    ELSE LET ke == GrammarStringEnd(txt, k)
             c  == IF ke = 0 THEN 0 ELSE SkipWS(txt, ke + 1)
             ve == IF c = 0 \/ c > Len(txt) \/ txt[c] # ":" THEN 0
                   ELSE GrammarValueEnd(txt, SkipWS(txt, c + 1))
             nx == IF ve = 0 THEN 0 ELSE SkipWS(txt, ve + 1)
         IN  IF nx = 0 \/ nx > Len(txt) THEN 0
             ELSE IF txt[nx] = "}" THEN nx
             ELSE IF txt[nx] = "," THEN GrammarMembersEnd(txt, SkipWS(txt, nx + 1), FALSE)
             ELSE 0

\* The body is white space, one JSON value, white space.
SingleValueBody(body) ==
    LET e == GrammarValueEnd(body, SkipWS(body, 1))
    IN  /\ e > 0
        /\ \A k \in (e + 1)..Len(body) : IsSpace(body[k])

\* C5: ReadJSON returns no error only for a body of exactly one top-level
\* value followed by nothing but white space; and whenever the first value
\* decodes and the second Decode yields anything but end-of-stream, it fails
\* with the exactly-one-value error.
C5_ExactlyOneValue ==
    jret.set =>
        /\ jret.msg = <<>> =>
              /\ SingleValueBody(jreq.body)
              /\ jret.first.type = NoError
              /\ jret.second.type = "EOF"
        /\ (jret.first.type = NoError /\ jret.second.type # "EOF") =>
              jret.msg = NotOneValueMessage

C5_Witness ==
    /\ jret.set
    /\ jret.first.type = NoError
    /\ jret.second.type = "MaxBytesError"
    /\ jret.msg = NotOneValueMessage

InAlphabet(c) == \E k \in DOMAIN randStrBytes : randStrBytes[k] = c

RandomStringResultOK(p) ==
    IF n[p] >= 1
    THEN /\ Len(res[p]) = n[p]
         /\ \A k \in DOMAIN res[p] : InAlphabet(res[p][k])
    ELSE /\ res[p] = <<>>
         /\ ~locked[p]
         /\ ~drew[p]

\* C6, as amended: RandomString(n), n >= 1, returns exactly n characters of
\* the alphabet, which has 63 symbols: the indices 0..62 select a symbol
\* and 63 is rejected (the characters written so far are all symbols); for
\* n <= 0 it returns "" without taking the mutex or drawing a word.
C6_RandomStringAlphabet63 ==
    /\ randStrLen = 63
    /\ Cardinality(Range(randStrBytes)) = 63
    /\ \A p \in Callers :
        /\ pc[p] = "done" => RandomStringResultOK(p)
        /\ pc[p] = "rs_loop" =>
              \A k \in DOMAIN st[p].b :
                  IF k <= st[p].i THEN InAlphabet(st[p].b[k]) ELSE st[p].b[k] = NUL

C6_Witness ==
    \E p \in Callers :
        /\ pc[p] = "done"
        /\ op[p] = "RandomString"
        /\ n[p] >= 2
        /\ rejected[p]
        /\ Len(res[p]) = n[p]

\* C6, as claimed: the same results, with an alphabet in which every 6-bit
\* index 0..63 selects a symbol.
C6_EveryIndexSelectsASymbol ==
    \A p \in Callers :
        /\ pc[p] = "done" => RandomStringResultOK(p)
        /\ (pc[p] = "rs_loop" /\ ~NeedsWord(st[p])) =>
              Low6(st[p].val) + 1 \in DOMAIN randStrBytes

\* C7: under every interleaving no call writes a field of the Tools value,
\* the generator is written only by the caller holding the mutex, and the
\* mutex is only ever taken when free and released by its holder.
C7_OnlyGeneratorWritten ==
    [][ /\ t' = t
        /\ rng' # rng => (mu \in Callers /\ mu' = mu /\ pc[mu] = "rs_loop")
        /\ mu' # mu => (mu = 0 \/ mu' = 0) ]_vars

\* C8: when PushJSONToRemote returns a response and no error, the response's
\* body has been neither read nor closed, and the caller can read it in full.
C8_BodyLeftOpen ==
    /\ (ppc = "returned" /\ presp.err = NoError) =>
          (pbody.closeCalls = 0 /\ pbody.pos = 0)
    /\ (presp.set /\ presp.err = NoError /\ pread.err # NoError) =>
          (pread.err = "EOF" /\ pread.data = pbody.data)

\* C9: a wrong-typed value makes ReadJSON fail with the type-mismatch error,
\* whose message names the offending field whenever the decoder reports one,
\* and gives the offset otherwise.
C9_TypeMismatchNamesField ==
    (jret.set /\ jret.first.type = "UnmarshalTypeError") =>
        IF jret.first.field # <<>>
        THEN jret.msg = <<"body contains incorrect JSON type for field ", jret.first.field>>
        ELSE jret.msg = <<"body contains incorrect JSON type at character ",
                          jret.first.offset>>

\* What a client decoding the body into a JSONResponse gets.
DecodeEnvelope(body) ==
    IF Len(body) < 14 \/ body[12] # Quote THEN [decoded |-> FALSE]
    ELSE LET close == CHOOSE k \in 13..Len(body) :
                        body[k] = Quote /\ \A m \in 13..(k - 1) : body[m] # Quote
         IN  [decoded |-> TRUE,
              error   |-> body[6] = "true",
              message |-> UnescapeString(SubSeq(body, 13, close - 1)),
              hasData |-> body[close + 1] = ","]

ValidUTF8(str) == \A k \in DOMAIN str : str[k] # InvalidByte

StatusAsked(status) == IF status = <<>> THEN 400 ELSE status[1]

ErrorJSONHead ==
    /\ rw.status = StatusAsked(wcall.status)
    /\ ContentType \in DOMAIN rw.sent
    /\ rw.sent[ContentType] = ApplicationJSON
    /\ rw.log = <<"SetContentType", "WriteHeader", "Write">>

\* C10, as amended: ErrorJSON writes one response with the status asked for
\* (400 by default) and Content-Type application/json set before the status
\* line, the body after it; when the message is valid UTF-8 and the write
\* succeeds the body decodes to error = true, message = err's message, no
\* data key; a failed write is returned as the error.
C10_ErrorJSONEnvelope ==
    wcall.fn = "ErrorJSON" =>
        /\ ErrorJSONHead
        /\ wret.err = (IF wcall.writeOK THEN NoError ELSE "write failed")
        /\ (wcall.writeOK /\ ValidUTF8(wcall.msg)) =>
              DecodeEnvelope(rw.body) =
                  [decoded |-> TRUE, error |-> TRUE, message |-> wcall.msg,
                   hasData |-> FALSE]

C10_Witness ==
    /\ wcall.fn = "ErrorJSON"
    /\ wcall.status = <<>>
    /\ wcall.writeOK
    /\ wcall.msg = <<Quote, "<">>
    /\ rw.status = 400
    /\ DecodeEnvelope(rw.body).message = wcall.msg

\* C10, as claimed: for every error and status the body decodes to the
\* envelope with message = err's message.
C10_EveryMessageRoundTrips ==
    (wcall.fn = "ErrorJSON" /\ wcall.writeOK) =>
        /\ ErrorJSONHead
        /\ DecodeEnvelope(rw.body) =
              [decoded |-> TRUE, error |-> TRUE, message |-> wcall.msg,
               hasData |-> FALSE]

==========================================================================
